---- MODULE Spec2Model ----
(***************************************************************************)
(* fishhook: rebinding of the symbol pointers of loaded Mach-O images.     *)
(*                                                                         *)
(* The model follows src/fishhook.c.  One action stands for one entry      *)
(* point (rebind_symbols, rebind_symbols_image) or one dyld event (an      *)
(* image is added), and does everything the code does before it returns.   *)
(* Pointers are small integers, C strings are sequences of character       *)
(* codes, and an image is a record of its load commands and its link-edit  *)
(* tables.  Addresses inside an image are byte offsets from the start of   *)
(* its pointer words, so the slide of an image is the identity of the      *)
(* image.                                                                  *)
(***************************************************************************)
EXTENDS Integers, Sequences, FiniteSets, TLC

\* ------------------------------------------------------------------------
\* Bounds of the model.

\* Calls of rebind_symbols that succeed plus calls of rebind_symbols_image.
MaxCalls == 2

\* Calls of rebind_symbols the threads make in all.
MaxThreadCalls == 3

\* ------------------------------------------------------------------------
\* Program constants.

NULL == 0
PtrSize == 8

LC_SEGMENT_ARCH_DEPENDENT == 25
LC_SYMTAB == 2
LC_DYSYMTAB == 11
\* A load command the code has no branch for (LC_UUID).
LC_OTHER == 27

\* Segment names, as character codes ("__DATA", "__DATA_CONST",
\* "__LINKEDIT"), and a segment the code does not look into ("__AUTH_CONST").
SEG_DATA == << 95, 95, 68, 65, 84, 65 >>
SEG_DATA_CONST == << 95, 95, 68, 65, 84, 65, 95, 67, 79, 78, 83, 84 >>
SEG_LINKEDIT == << 95, 95, 76, 73, 78, 75, 69, 68, 73, 84 >>
SEG_AUTH_CONST == << 95, 95, 65, 85, 84, 72, 95, 67, 79, 78, 83, 84 >>

SECTION_TYPE == 255
S_REGULAR == 0
S_NON_LAZY_SYMBOL_POINTERS == 6
S_LAZY_SYMBOL_POINTERS == 7

\* The reserved values of the indirect symbol table, 0x80000000 and
\* 0x40000000.  A uint32_t above 0x7fffffff is written as the 32-bit signed
\* integer with the same bits.
INDIRECT_SYMBOL_ABS == 1073741824
INDIRECT_SYMBOL_LOCAL == (-INDIRECT_SYMBOL_ABS) - INDIRECT_SYMBOL_ABS

VM_PROT_READ == 1
VM_PROT_WRITE == 2
VM_PROT_EXECUTE == 4
PROT_READ == 1
PROT_WRITE == 2
PROT_EXEC == 4

KERN_SUCCESS == 0
KERN_FAILURE == 5

\* ------------------------------------------------------------------------
\* C strings.  A string in memory is a run of character codes ended by 0.

\* The characters of the string that starts at byte offset off of mem.
RECURSIVE CString(_, _)
CString(mem, off) ==
    IF off >= Len(mem) \/ mem[off + 1] = 0
    THEN << >>
    ELSE << mem[off + 1] >> \o CString(mem, off + 1)

\* strcmp: 0 when the two strings are equal, else the sign of the first
\* difference (the end of a string compares as character 0).
RECURSIVE strcmp(_, _)
strcmp(a, b) ==
    LET ca == IF a = << >> THEN 0 ELSE Head(a)
        cb == IF b = << >> THEN 0 ELSE Head(b)
    IN  IF ca # cb THEN (IF ca < cb THEN -1 ELSE 1)
        ELSE IF ca = 0 THEN 0
        ELSE strcmp(Tail(a), Tail(b))

\* Names of the model, as character codes.
str_open == << 111, 112, 101, 110 >>
str_write == << 119, 114, 105, 116, 101 >>
str_close == << 99, 108, 111, 115, 101 >>

\* ------------------------------------------------------------------------
\* The images of the model.

\* The string table: "" at 0, "_" at 1, "_open" at 3, "_write" at 9.
StrTab ==
    << 0, 95, 0 >> \o << 95 >> \o str_open \o << 0 >>
                   \o << 95 >> \o str_write \o << 0 >>

\* The symbol table: n_un.n_strx of each symbol, symbol 0 first.
SymTab == << 3, 9, 1, 0 >>

Seg(name, sects) ==
    [cmd |-> LC_SEGMENT_ARCH_DEPENDENT, segname |-> name, sects |-> sects,
     nindirectsyms |-> 0]

Cmd(c, n) ==
    [cmd |-> c, segname |-> << >>, sects |-> << >>, nindirectsyms |-> n]

\* A section header: addr and size are in bytes, addr from the start of the
\* image's pointer words.
Sect(seg, flags, reserved1, addr, size) ==
    [segname |-> seg, flags |-> flags, reserved1 |-> reserved1,
     addr |-> addr, size |-> size]

\* Image 1, an executable: lazy pointers and plain data in __DATA, a
\* non-lazy table in __DATA_CONST whose last three entries are the reserved
\* indirect-symbol values.
Image1 ==
    [cmds |-> << Seg(SEG_DATA,
                     << Sect(SEG_DATA, S_LAZY_SYMBOL_POINTERS, 0, 0, 16),
                        Sect(SEG_DATA, S_REGULAR, 0, 16, 8) >>),
                 Cmd(LC_OTHER, 0),
                 Seg(SEG_DATA_CONST,
                     << Sect(SEG_DATA_CONST, S_NON_LAZY_SYMBOL_POINTERS,
                             2, 24, 32) >>),
                 Seg(SEG_LINKEDIT, << >>),
                 Cmd(LC_SYMTAB, 0),
                 Cmd(LC_DYSYMTAB, 6) >>,
     symtab |-> SymTab,
     strtab |-> StrTab,
     indirect_symtab |-> << 0, 1, 0, INDIRECT_SYMBOL_LOCAL, INDIRECT_SYMBOL_ABS,
                            INDIRECT_SYMBOL_LOCAL + INDIRECT_SYMBOL_ABS >>,
     stray |-> 3,
     words |-> << 12, 13, 90, 11, 91, 92, 93 >>]

\* Image 2, a library: a non-lazy table in __DATA with the symbols "_open",
\* "_" and "", and a non-lazy table in a segment the code does not scan.
Image2 ==
    [cmds |-> << Seg(SEG_DATA,
                     << Sect(SEG_DATA, S_NON_LAZY_SYMBOL_POINTERS + 1024,
                             0, 0, 24) >>),
                 Seg(SEG_AUTH_CONST,
                     << Sect(SEG_AUTH_CONST, S_NON_LAZY_SYMBOL_POINTERS,
                             3, 24, 8) >>),
                 Cmd(LC_SYMTAB, 0),
                 Seg(SEG_LINKEDIT, << >>),
                 Cmd(LC_DYSYMTAB, 4) >>,
     symtab |-> SymTab,
     strtab |-> StrTab,
     indirect_symtab |-> << 0, 2, 3, 0 >>,
     stray |-> 0,
     words |-> << 11, 94, 95, 11 >>]

\* The load commands an image needs to be patched, and an image that has
\* all of them but those in `without`; its only table is a non-lazy table
\* in __DATA_CONST with one slot bound to "_open".
Incomplete(without, nindirectsyms) ==
    LET all == << Seg(SEG_DATA_CONST,
                      << Sect(SEG_DATA_CONST, S_NON_LAZY_SYMBOL_POINTERS,
                              0, 0, 8) >>),
                  Seg(SEG_LINKEDIT, << >>),
                  Cmd(LC_SYMTAB, 0),
                  Cmd(LC_DYSYMTAB, nindirectsyms) >>
    IN  [cmds |-> SelectSeq(all, LAMBDA c : ~ (c.cmd = without[1]
                                               /\ c.segname = without[2])),
         symtab |-> SymTab,
         strtab |-> StrTab,
         indirect_symtab |-> << 0 >>,
         stray |-> 0,
         words |-> << 11 >>]

\* The four builds of image 3: without its link-edit segment, without
\* LC_SYMTAB, without LC_DYSYMTAB, and with no indirect symbols.
Image3 ==
    << Incomplete(<< LC_SEGMENT_ARCH_DEPENDENT, SEG_LINKEDIT >>, 1),
       Incomplete(<< LC_SYMTAB, << >> >>, 1),
       Incomplete(<< LC_DYSYMTAB, << >> >>, 1),
       Incomplete(<< 0, << >> >>, 0) >>

Builds == DOMAIN Image3

\* The headers of the model.
Headers == 1 .. 3

\* ------------------------------------------------------------------------
\* The rebindings a caller may pass.  replaced is the index of the caller's
\* output slot in `out`, or NULL.

Rebinding(name, replacement, replaced) ==
    [name |-> name, replacement |-> replacement, replaced |-> replaced]

OutSlots == 1 .. 3

\* The arrays callers pass: one rebinding of "open", and a second
\* rebinding of "open" ahead of the first one, of "close" and of "write".
Batch1 == << Rebinding(str_open, 21, 1) >>

Batch2 ==
    << Rebinding(str_open, 22, 2), Rebinding(str_open, 21, 1),
       Rebinding(str_close, 23, 3), Rebinding(str_write, 24, NULL) >>

Batches == { Batch1, Batch2 }

\* An array whose one name, "close", no image of the model refers to, and
\* the arrays the threads pass.
Batch3 == << Rebinding(str_close, 23, 3) >>

ThreadBatches == { Batch1, Batch3 }

\* An array of names that are close to "_open" and are not the name of any
\* symbol once its first character is taken away: the empty name, "_open",
\* "ope" and "opens".  And the arrays callers pass when a pass is followed
\* statement by statement.
Batch4 ==
    << Rebinding(<< >>, 25, 3), Rebinding(<< 95 >> \o str_open, 26, 3),
       Rebinding(<< 111, 112, 101 >>, 27, 3),
       Rebinding(str_open \o << 115 >>, 28, 3) >>

PassBatches == { Batch1, Batch2, Batch4 }

\* What the two malloc calls of prepend_rebindings return: TRUE for memory,
\* FALSE for NULL.
Mallocs ==
    { [entry |-> TRUE, rebindings |-> TRUE],
      [entry |-> TRUE, rebindings |-> FALSE],
      [entry |-> FALSE, rebindings |-> TRUE] }

\* What the platform answers during one call: the status of vm_region, and
\* the protection it reports for memory that is not a pointer table of an
\* image (the registry's allocation, and the first region from address 0).
Envs ==
    { [info_ret |-> KERN_SUCCESS, heap |-> VM_PROT_READ + VM_PROT_WRITE,
       zero |-> VM_PROT_READ + VM_PROT_EXECUTE],
      [info_ret |-> KERN_FAILURE, heap |-> VM_PROT_READ + VM_PROT_WRITE,
       zero |-> 0] }

\* ------------------------------------------------------------------------
\* State.

VARIABLES
    rebindings_head,    \* _rebindings_head: the chain, newest entry first
    bindings,           \* bindings[h]: the pointer words of the image at h
    prot,               \* prot[h][w]: the protection of word w of image h
    out,                \* the callers' output slots (*replaced)
    loaded,             \* the images dyld has loaded, in load order
    registered,         \* calls of _dyld_register_func_for_add_image so far
    scoped,             \* calls of rebind_symbols_image so far
    last,               \* the last call of an entry point: what malloc
                        \* returned to it, its status, whether it ran
                        \* lines 431-434, and for rebind_symbols_image
                        \* the header it was given and the chain it
                        \* built (line 404)
    build,              \* the build of image 3 that dyld loads
    frames,             \* frames[t]: where thread t is in rebind_symbols
                        \* and its locals, when the calls of the threads
                        \* are followed statement by statement
    pass                \* where a call of rebind_symbols_for_image is and
                        \* its locals, when it is followed statement by
                        \* statement

vars == << rebindings_head, bindings, prot, out, loaded, registered, scoped,
           last, build, frames, pass >>

\* The image at header h, when image 3 is build b.
Image(h, b) ==
    CASE h = 1 -> Image1
      [] h = 2 -> Image2
      [] h = 3 -> Image3[b]

\* The memory a patch pass works on: the images' pointer words and their
\* protection, the callers' output slots, and the build of image 3.
Memory ==
    [bindings |-> bindings, prot |-> prot, out |-> out, build |-> build]

Range(s) == { s[i] : i \in DOMAIN s }

Min(S) == CHOOSE x \in S : \A y \in S : x <= y

Max(S) == CHOOSE x \in S : \A y \in S : x >= y

\* x & b # 0, for a single bit b.
HasBit(x, b) == (x \div b) % 2 = 1

\* The byte at offset off of mem; past the end of the model's table, 0.
Byte(mem, off) == IF off < Len(mem) THEN mem[off + 1] ELSE 0

\* prepend_rebindings that links the new entry after the last entry.
prepend_rebindings_at_tail(head, rebindings, malloc) ==
    IF ~ malloc.entry THEN [retval |-> -1, head |-> head]
    ELSE IF ~ malloc.rebindings THEN [retval |-> -1, head |-> head]
    ELSE [retval |-> 0, head |-> head \o << rebindings >>]

\* prepend_rebindings with line 85 moved before the test of line 76: the
\* entry is linked into the chain before its array is allocated.
prepend_rebindings_links_first(head, rebindings, malloc) ==
    IF ~ malloc.entry THEN [retval |-> -1, head |-> head]
    ELSE IF ~ malloc.rebindings
    THEN [retval |-> -1, head |-> << rebindings >> \o head]
    ELSE [retval |-> 0, head |-> << rebindings >> \o head]

\* ------------------------------------------------------------------------
\* prepend_rebindings: the new chain and the status.  A chain is the
\* sequence of its entries, head first; an entry is its rebindings array.
prepend_rebindings(head, rebindings, malloc) ==
    IF ~ malloc.entry THEN [retval |-> -1, head |-> head]
    ELSE IF ~ malloc.rebindings THEN [retval |-> -1, head |-> head]
    ELSE [retval |-> 0, head |-> << rebindings >> \o head]

\* vm_region on an address: of a pointer word of an image, or of memory
\* outside the images' pointer tables.
vm_region(mem, address, env) ==
    [info_ret |-> env.info_ret,
     protection |-> CASE address.space = "image" ->
                            mem.prot[address.h][address.word]
                      [] address.space = "heap" -> env.heap
                      [] address.space = "zero" -> env.zero]

\* get_protection without the test of line 103.
get_protection_unchecked(mem, sectionStart, env) ==
    vm_region(mem, sectionStart, env).protection

get_protection(mem, sectionStart, env) ==
    LET info == vm_region(mem, sectionStart, env)
    IN  IF info.info_ret = KERN_SUCCESS THEN info.protection
        ELSE VM_PROT_READ

\* The address held by a pointer to a chain: NULL when the chain is empty.
AddressOf(rebindings) ==
    IF rebindings = << >> THEN [space |-> "zero"] ELSE [space |-> "heap"]

\* The words of a section: 1-based indexes into the image's pointer words.
SectionWords(section) ==
    { section.addr \div PtrSize + i : i \in 1 .. section.size \div PtrSize }

mprotect(mem, h, section, protection) ==
    [mem EXCEPT !.prot[h] =
        [w \in DOMAIN mem.prot[h] |->
            IF w \in SectionWords(section) THEN protection
            ELSE mem.prot[h][w]]]

\* ------------------------------------------------------------------------
\* perform_rebinding_with_section.

\* IsReserved without the third comparison of lines 170-171.
IsReservedWithoutLocalAbs(symtab_index) ==
    \/ symtab_index = INDIRECT_SYMBOL_ABS
    \/ symtab_index = INDIRECT_SYMBOL_LOCAL

\* The test of lines 170-171 on an indirect-symbol-table entry.
IsReserved(symtab_index) ==
    \/ symtab_index = INDIRECT_SYMBOL_ABS
    \/ symtab_index = INDIRECT_SYMBOL_LOCAL
    \/ symtab_index = INDIRECT_SYMBOL_LOCAL + INDIRECT_SYMBOL_ABS

\* symtab[symtab_index].n_un.n_strx.  An index past the end of the table
\* reads what the image holds there (stray).
n_strx(img, symtab_index) ==
    IF symtab_index \in 0 .. Len(img.symtab) - 1
    THEN img.symtab[symtab_index + 1]
    ELSE img.stray

\* NameMatches without symbol_name_longer_than_1.
NameMatchesAnyLength(strtab, strtab_offset, name) ==
    strcmp(CString(strtab, strtab_offset + 1), name) = 0

\* The test of lines 185-186 on one rebinding, for the symbol name at
\* strtab + strtab_offset.
NameMatches(strtab, strtab_offset, name) ==
    LET symbol_name_longer_than_1 ==
            /\ Byte(strtab, strtab_offset) # 0
            /\ Byte(strtab, strtab_offset + 1) # 0
    IN  /\ symbol_name_longer_than_1
        /\ strcmp(CString(strtab, strtab_offset + 1), name) = 0

\* FindRebinding with the chain walked from its last entry to its first.
RECURSIVE FindRebindingOldestFirst(_, _, _, _)
FindRebindingOldestFirst(rebindings, k, strtab, strtab_offset) ==
    IF k > Len(rebindings) THEN << >>
    ELSE LET e == Len(rebindings) + 1 - k
             cur == rebindings[e]
             js == { j \in 1 .. Len(cur) :
                       NameMatches(strtab, strtab_offset, cur[j].name) }
         IN  IF js # {} THEN << e, Min(js) >>
             ELSE FindRebindingOldestFirst(rebindings, k + 1, strtab,
                                           strtab_offset)

\* FindRebinding with the loop over j going on to the last match of the
\* entry.
RECURSIVE FindRebindingLastOfEntry(_, _, _, _)
FindRebindingLastOfEntry(rebindings, k, strtab, strtab_offset) ==
    IF k > Len(rebindings) THEN << >>
    ELSE LET cur == rebindings[k]
             js == { j \in 1 .. Len(cur) :
                       NameMatches(strtab, strtab_offset, cur[j].name) }
         IN  IF js # {} THEN << k, Max(js) >>
             ELSE FindRebindingLastOfEntry(rebindings, k + 1, strtab,
                                           strtab_offset)

\* The loops of lines 181-199: the first entry of the chain, from entry k
\* on, that has a matching rebinding, and the first such rebinding in it,
\* as << entry, index >>; << >> when the loops end without a match.
RECURSIVE FindRebinding(_, _, _, _)
FindRebinding(rebindings, k, strtab, strtab_offset) ==
    IF k > Len(rebindings) THEN << >>
    ELSE LET cur == rebindings[k]
             js == { j \in 1 .. Len(cur) :
                       NameMatches(strtab, strtab_offset, cur[j].name) }
         IN  IF js # {} THEN << k, Min(js) >>
             ELSE FindRebinding(rebindings, k + 1, strtab, strtab_offset)

\* ApplyRebinding with lines 191 and 194 exchanged: the slot is overwritten
\* before it is copied to *replaced.
ApplyRebindingOverwritesFirst(mem, h, w, r) ==
    LET overwritten == [mem EXCEPT !.bindings[h][w] = r.replacement]
    IN  IF r.replaced # NULL /\ mem.bindings[h][w] # r.replacement
        THEN [overwritten EXCEPT
                 !.out[r.replaced] = overwritten.bindings[h][w]]
        ELSE overwritten

\* ApplyRebinding with line 191 storing the value the slot was loaded with
\* in place of the value it holds.
ApplyRebindingCapturesLoaded(mem, h, w, r) ==
    LET captured ==
            IF r.replaced # NULL /\ mem.bindings[h][w] # r.replacement
            THEN [mem EXCEPT !.out[r.replaced] = Image(h, mem.build).words[w]]
            ELSE mem
    IN  [captured EXCEPT !.bindings[h][w] = r.replacement]

\* ApplyRebinding without the second test of line 188-189.
ApplyRebindingAlwaysCaptures(mem, h, w, r) ==
    LET captured ==
            IF r.replaced # NULL
            THEN [mem EXCEPT !.out[r.replaced] = mem.bindings[h][w]]
            ELSE mem
    IN  [captured EXCEPT !.bindings[h][w] = r.replacement]

\* ApplyRebinding with the test of line 189 made on *replaced in place of
\* the slot.
ApplyRebindingComparesOutput(mem, h, w, r) ==
    LET captured ==
            IF r.replaced # NULL /\ mem.out[r.replaced] # r.replacement
            THEN [mem EXCEPT !.out[r.replaced] = mem.bindings[h][w]]
            ELSE mem
    IN  [captured EXCEPT !.bindings[h][w] = r.replacement]

\* Lines 188-194 on slot w of image h for the matching rebinding r.
ApplyRebinding(mem, h, w, r) ==
    LET captured ==
            IF r.replaced # NULL /\ mem.bindings[h][w] # r.replacement
            THEN [mem EXCEPT !.out[r.replaced] = mem.bindings[h][w]]
            ELSE mem
    IN  [captured EXCEPT !.bindings[h][w] = r.replacement]

\* One turn of the loop of line 166, for slot i of the section.
symbol_loop(mem, rebindings, h, section, i, env) ==
    LET img == Image(h, mem.build)
        symtab_index == img.indirect_symtab[section.reserved1 + i + 1]
        strtab_offset == n_strx(img, symtab_index)
        found == FindRebinding(rebindings, 1, img.strtab, strtab_offset)
    IN  IF IsReserved(symtab_index) THEN mem
        ELSE IF found = << >> THEN mem
        ELSE ApplyRebinding(mem, h, section.addr \div PtrSize + i + 1,
                            rebindings[found[1]][found[2]])

RECURSIVE SlotLoop(_, _, _, _, _, _)
SlotLoop(mem, rebindings, h, section, i, env) ==
    IF i >= section.size \div PtrSize THEN mem
    ELSE SlotLoop(symbol_loop(mem, rebindings, h, section, i, env),
                  rebindings, h, section, i + 1, env)

\* Lines 203-212: the mprotect flags for a vm_prot_t.
RestoredProtection(oldProtection) ==
    (IF HasBit(oldProtection, VM_PROT_READ) THEN PROT_READ ELSE 0)
    + (IF HasBit(oldProtection, VM_PROT_WRITE) THEN PROT_WRITE ELSE 0)
    + (IF HasBit(oldProtection, VM_PROT_EXECUTE) THEN PROT_EXEC ELSE 0)

\* The address line 162 asks the protection of: the chain, not the section.
QueriedAddress(rebindings, h, section) == AddressOf(rebindings)

perform_rebinding_with_section(mem, rebindings, h, section, env) ==
    LET isDataConst == strcmp(section.segname, SEG_DATA_CONST) = 0
        oldProtection ==
            IF isDataConst
            THEN get_protection(mem, QueriedAddress(rebindings, h, section),
                                env)
            ELSE VM_PROT_READ
        writable ==
            IF isDataConst
            THEN mprotect(mem, h, section, PROT_READ + PROT_WRITE)
            ELSE mem
        patched == SlotLoop(writable, rebindings, h, section, 0, env)
    IN  IF isDataConst
        THEN mprotect(patched, h, section, RestoredProtection(oldProtection))
        ELSE patched

\* ------------------------------------------------------------------------
\* rebind_symbols_for_image.

\* dladdr that finds an image at every address.
dladdr_finds_any(h, images) == 1

\* dladdr: nonzero when the address lies in an image dyld has loaded.
dladdr(h, images) == IF h \in Range(images) THEN 1 ELSE 0

\* The first loop (lines 295-332) keeps the last load command of each kind:
\* of the indexes `is` of the commands of a kind, the last one, or NULL.
LastCmd(is) == IF is = {} THEN NULL ELSE Max(is)

IsLinkedit(c) ==
    /\ c.cmd = LC_SEGMENT_ARCH_DEPENDENT
    /\ strcmp(c.segname, SEG_LINKEDIT) = 0

IsSymtab(c) == c.cmd = LC_SYMTAB

IsDysymtab(c) == c.cmd = LC_DYSYMTAB

\* Lines 378-386 on one section: a lazy table is patched by the first test,
\* a non-lazy table by the second.
PatchSection(mem, rebindings, h, sect, env) ==
    LET type == sect.flags % (SECTION_TYPE + 1)
        lazy == IF type = S_LAZY_SYMBOL_POINTERS
                THEN perform_rebinding_with_section(mem, rebindings, h, sect,
                                                    env)
                ELSE mem
    IN  IF type = S_NON_LAZY_SYMBOL_POINTERS
        THEN perform_rebinding_with_section(lazy, rebindings, h, sect, env)
        ELSE lazy

RECURSIVE SectionLoop(_, _, _, _, _, _)
SectionLoop(mem, rebindings, h, sects, j, env) ==
    IF j > Len(sects) THEN mem
    ELSE SectionLoop(PatchSection(mem, rebindings, h, sects[j], env),
                     rebindings, h, sects, j + 1, env)

\* IsDataSegment without the test of lines 365-368.
IsAnySegment(c) == c.cmd = LC_SEGMENT_ARCH_DEPENDENT

\* Lines 363-368: the segments the second loop looks into.
IsDataSegment(c) ==
    /\ c.cmd = LC_SEGMENT_ARCH_DEPENDENT
    /\ ~ (strcmp(c.segname, SEG_DATA) # 0
          /\ strcmp(c.segname, SEG_DATA_CONST) # 0)

RECURSIVE CommandLoop(_, _, _, _, _)
CommandLoop(mem, rebindings, h, i, env) ==
    LET cmds == Image(h, mem.build).cmds
    IN  IF i > Len(cmds) THEN mem
        ELSE IF IsDataSegment(cmds[i])
        THEN CommandLoop(SectionLoop(mem, rebindings, h, cmds[i].sects, 1,
                                     env),
                         rebindings, h, i + 1, env)
        ELSE CommandLoop(mem, rebindings, h, i + 1, env)

\* Skipped without the test of nindirectsyms.
SkippedUnlessCommandMissing(img) ==
    LET cmds == img.cmds
    IN  \/ LastCmd({ i \in DOMAIN cmds : IsSymtab(cmds[i]) }) = NULL
        \/ LastCmd({ i \in DOMAIN cmds : IsDysymtab(cmds[i]) }) = NULL
        \/ LastCmd({ i \in DOMAIN cmds : IsLinkedit(cmds[i]) }) = NULL

\* Lines 334-335: the image cannot be patched.
Skipped(img) ==
    LET cmds == img.cmds
        linkedit_segment ==
            LastCmd({ i \in DOMAIN cmds : IsLinkedit(cmds[i]) })
        symtab_cmd == LastCmd({ i \in DOMAIN cmds : IsSymtab(cmds[i]) })
        dysymtab_cmd == LastCmd({ i \in DOMAIN cmds : IsDysymtab(cmds[i]) })
    IN  \/ symtab_cmd = NULL
        \/ dysymtab_cmd = NULL
        \/ linkedit_segment = NULL
        \/ cmds[dysymtab_cmd].nindirectsyms = 0

rebind_symbols_for_image(mem, rebindings, h, images, env) ==
    IF dladdr(h, images) = 0 THEN mem
    ELSE IF Skipped(Image(h, mem.build)) THEN mem
    ELSE CommandLoop(mem, rebindings, h, 1, env)

\* _rebind_symbols_for_image: the callback, on the global chain.
rebind_symbols_for_image_callback(mem, head, h, images, env) ==
    rebind_symbols_for_image(mem, head, h, images, env)

\* ImageLoop that leaves out the first image.
RECURSIVE ImageLoopFromSecond(_, _, _, _, _)
ImageLoopFromSecond(mem, head, images, i, env) ==
    IF i > Len(images) THEN mem
    ELSE ImageLoopFromSecond(
             IF i = 1 THEN mem
             ELSE rebind_symbols_for_image_callback(mem, head, images[i],
                                                    images, env),
             head, images, i + 1, env)

\* The callback on images[i], images[i + 1], ... in turn: the loop of lines
\* 431-434, and what dyld does for the images already loaded when the
\* callback is registered.
RECURSIVE ImageLoop(_, _, _, _, _)
ImageLoop(mem, head, images, i, env) ==
    IF i > Len(images) THEN mem
    ELSE ImageLoop(rebind_symbols_for_image_callback(mem, head, images[i],
                                                     images, env),
                   head, images, i + 1, env)

\* Line 423 with every call taken for the first.
AlwaysFirstCall(head) == TRUE

\* Line 423: this was the first call.
IsFirstCall(head) == Len(head) = 1

\* rebind_symbols_image with &_rebindings_head for &rebindings_head on line
\* 404, and without line 406: the batch goes onto the global chain.
rebind_symbols_image_global(mem, global, h, rebindings, images, malloc, env) ==
    LET prepended == prepend_rebindings(global, rebindings, malloc)
    IN  [retval |-> prepended.retval,
         private |-> prepended.head,
         head |-> prepended.head,
         mem |-> rebind_symbols_for_image(mem, prepended.head, h, images,
                                          env)]

\* rebind_symbols_image, called with the global chain `global` in place:
\* its status, the chain it built (private), the global chain and the
\* memory when it returns.
rebind_symbols_image(mem, global, h, rebindings, images, malloc, env) ==
    LET prepended == prepend_rebindings(<< >>, rebindings, malloc)
        rebindings_head_local == prepended.head
    IN  [retval |-> prepended.retval,
         private |-> rebindings_head_local,
         head |-> global,
         mem |-> rebind_symbols_for_image(mem, rebindings_head_local, h,
                                          images, env)]

\* rebind_symbols: its status, the global chain, the number of registered
\* callbacks and the memory when it returns, and whether it ran the loop of
\* lines 431-434.  dyld calls a callback that is being registered on every
\* image already loaded, in load order.
rebind_symbols(mem, global, callbacks, rebindings, images, malloc, env) ==
    LET prepended == prepend_rebindings(global, rebindings, malloc)
        retval == prepended.retval
        head == prepended.head
    IN  IF retval < 0
        THEN [retval |-> retval, head |-> head, registered |-> callbacks,
              enumerated |-> FALSE, mem |-> mem]
        ELSE IF IsFirstCall(head)
        THEN [retval |-> retval, head |-> head,
              registered |-> callbacks + 1, enumerated |-> FALSE,
              mem |-> ImageLoop(mem, head, images, 1, env)]
        ELSE [retval |-> retval, head |-> head, registered |-> callbacks,
              enumerated |-> TRUE,
              mem |-> ImageLoop(mem, head, images, 1, env)]

\* ------------------------------------------------------------------------
\* Actions.

Installed(mem) ==
    \E m \in {mem} :
        /\ bindings' = m.bindings
        /\ prot' = m.prot
        /\ out' = m.out

\* The protection of the pointer words of an image before any call:
\* __DATA is writable, the rest is read-only.
InitialProt(img) ==
    LET Writable(w) ==
            \E c \in Range(img.cmds) :
                /\ c.segname = SEG_DATA
                /\ \E t \in Range(c.sects) : w \in SectionWords(t)
    IN  [w \in DOMAIN img.words |->
            IF Writable(w) THEN VM_PROT_READ + VM_PROT_WRITE
            ELSE VM_PROT_READ]

\* The threads that call rebind_symbols.
Threads == { 1, 2 }

\* A thread that is in no call, and no call of rebind_symbols_for_image.
IdleFrame ==
    [pc |-> "idle", rebindings |-> << >>, next |-> << >>, retval |-> 0,
     calls |-> 0, prepends |-> 0, stale |-> FALSE]

NoPass ==
    [pc |-> "idle", kind |-> "none", header |-> NULL, rebindings |-> << >>,
     env |-> [info_ret |-> KERN_SUCCESS, heap |-> 0, zero |-> 0],
     i |-> 0, j |-> 0, k |-> 0, isDataConst |-> FALSE, oldProtection |-> 0,
     granted |-> FALSE, log |-> << >>, again |-> FALSE, prev |-> << >>]

\* The executable, image 1, is loaded before any code of the process runs.
Init ==
    /\ frames = [t \in Threads |-> IdleFrame]
    /\ pass = NoPass
    /\ build = 1
    /\ rebindings_head = << >>
    /\ bindings = [h \in Headers |-> Image(h, build).words]
    /\ prot = [h \in Headers |-> InitialProt(Image(h, build))]
    /\ out = [o \in OutSlots |-> NULL]
    /\ loaded = << 1 >>
    /\ registered = 0
    /\ scoped = 0
    /\ last = [op |-> "none", header |-> NULL, private |-> << >>,
               malloc |-> [entry |-> TRUE, rebindings |-> TRUE],
               retval |-> 0, enumerated |-> FALSE]

\* dyld loads the image at h (build b of it, for image 3) and calls the
\* registered callback, if any.
AddImage(h, b, env) ==
    /\ h \notin Range(loaded)
    /\ b = IF h = 3 THEN b ELSE build
    /\ loaded' = Append(loaded, h)
    /\ build' = b
    /\ Installed(IF registered > 0
                 THEN rebind_symbols_for_image_callback(
                          [Memory EXCEPT !.build = b], rebindings_head, h,
                          Append(loaded, h), env)
                 ELSE Memory)
    /\ UNCHANGED << rebindings_head, registered, scoped, last, frames, pass >>

\* A call of rebind_symbols.
CallRebindSymbols(rebindings, malloc, env) ==
    /\ Len(prepend_rebindings(rebindings_head, rebindings, malloc).head)
           + scoped <= MaxCalls
    /\ \E r \in { rebind_symbols(Memory, rebindings_head, registered,
                                  rebindings, loaded, malloc, env) } :
        /\ rebindings_head' = r.head
        /\ registered' = r.registered
        /\ Installed(r.mem)
        /\ last' = [op |-> "rebind_symbols", header |-> NULL,
                    private |-> << >>, malloc |-> malloc,
                    retval |-> r.retval, enumerated |-> r.enumerated]
        /\ UNCHANGED << loaded, scoped, build, frames, pass >>

\* A call of rebind_symbols_image.
CallRebindSymbolsImage(h, rebindings, malloc, env) ==
    /\ Len(rebindings_head) + scoped < MaxCalls
    /\ \E r \in { rebind_symbols_image(Memory, rebindings_head, h,
                                        rebindings, loaded, malloc, env) } :
        /\ scoped' = scoped + 1
        /\ rebindings_head' = r.head
        /\ Installed(r.mem)
        /\ last' = [op |-> "rebind_symbols_image", header |-> h,
                    private |-> r.private, malloc |-> malloc,
                    retval |-> r.retval, enumerated |-> FALSE]
        /\ UNCHANGED << loaded, registered, build, frames, pass >>

Next ==
    \/ \E h \in Headers, b \in Builds, env \in Envs : AddImage(h, b, env)
    \/ \E rebindings \in Batches, malloc \in Mallocs, env \in Envs :
          CallRebindSymbols(rebindings, malloc, env)
    \/ \E h \in Headers, rebindings \in Batches, malloc \in Mallocs,
          env \in Envs :
          CallRebindSymbolsImage(h, rebindings, malloc, env)

Spec == Init /\ [][Next]_vars

\* ------------------------------------------------------------------------
\* Threads that call rebind_symbols with no lock: a step is one access to
\* _rebindings_head, or the calls rebind_symbols makes after it (taken
\* whole).  frames[t] holds the argument of thread t, the head it read at
\* line 83 (next), its status, the calls it has made, the entries it has
\* linked, and whether another thread had linked an entry between its read
\* of the head and its write (stale).

BothMallocs == [entry |-> TRUE, rebindings |-> TRUE]

\* In the calls of the threads malloc returns memory and vm_region succeeds.
ThreadMallocs == { BothMallocs }

ThreadEnvs == { env \in Envs : env.info_ret = KERN_SUCCESS }

\* Thread t calls rebind_symbols: lines 69-81 of prepend_rebindings, which
\* touch only the new entry.  When a malloc returns NULL the call returns.
ThreadCall(t, rebindings, malloc) ==
    /\ frames[t].pc = "idle"
    /\ frames[1].calls + frames[2].calls < MaxThreadCalls
    /\ frames' = [frames EXCEPT ![t] =
          [@ EXCEPT !.rebindings = rebindings,
                    !.calls = @ + 1,
                    !.next = << >>,
                    !.retval = prepend_rebindings(<< >>, rebindings,
                                                  malloc).retval,
                    !.pc = IF prepend_rebindings(<< >>, rebindings,
                                                 malloc).retval < 0
                           THEN "idle" ELSE "line83"]]
    /\ UNCHANGED << rebindings_head, bindings, prot, out, loaded, registered,
                    scoped, last, build, pass >>

\* Line 83: new_entry->next = *rebindings_head.
ReadHead(t) ==
    /\ frames[t].pc = "line83"
    /\ frames' = [frames EXCEPT ![t] =
          [@ EXCEPT !.next = rebindings_head, !.pc = "line85"]]
    /\ UNCHANGED << rebindings_head, bindings, prot, out, loaded, registered,
                    scoped, last, build, pass >>

\* WriteHead with lines 83 and 85 as one step: the entry is linked in front
\* of the head as it is when the head is written.
WriteHeadOfFreshRead(t) ==
    /\ frames[t].pc = "line85"
    /\ rebindings_head' =
          prepend_rebindings(rebindings_head, frames[t].rebindings,
                             BothMallocs).head
    /\ frames' = [frames EXCEPT ![t] =
          [@ EXCEPT !.prepends = @ + 1,
                    !.stale = @ \/ frames[t].next # rebindings_head,
                    !.pc = "line423"]]
    /\ UNCHANGED << bindings, prot, out, loaded, registered, scoped, last,
                    build, pass >>

\* Line 85: *rebindings_head = new_entry.
WriteHead(t) ==
    /\ frames[t].pc = "line85"
    /\ rebindings_head' =
          prepend_rebindings(frames[t].next, frames[t].rebindings,
                             BothMallocs).head
    /\ frames' = [frames EXCEPT ![t] =
          [@ EXCEPT !.prepends = @ + 1,
                    !.stale = @ \/ frames[t].next # rebindings_head,
                    !.pc = "line423"]]
    /\ UNCHANGED << bindings, prot, out, loaded, registered, scoped, last,
                    build, pass >>

\* TestNext on new_entry->next, the head the thread read at line 83.
TestOwnNext(t) ==
    /\ frames[t].pc = "line423"
    /\ frames' = [frames EXCEPT ![t] =
          [@ EXCEPT !.pc = IF frames[t].next = << >>
                           THEN "line426" ELSE "line431"]]
    /\ UNCHANGED << rebindings_head, bindings, prot, out, loaded, registered,
                    scoped, last, build, pass >>

\* Line 423: the test of _rebindings_head->next.
TestNext(t) ==
    /\ frames[t].pc = "line423"
    /\ frames' = [frames EXCEPT ![t] =
          [@ EXCEPT !.pc = IF IsFirstCall(rebindings_head)
                           THEN "line426" ELSE "line431"]]
    /\ UNCHANGED << rebindings_head, bindings, prot, out, loaded, registered,
                    scoped, last, build, pass >>

\* Line 426: the callback is registered, and dyld calls it on the images
\* already loaded.
RegisterCallback(t, env) ==
    /\ frames[t].pc = "line426"
    /\ registered' = registered + 1
    /\ Installed(ImageLoop(Memory, rebindings_head, loaded, 1, env))
    /\ frames' = [frames EXCEPT ![t] = [@ EXCEPT !.pc = "idle"]]
    /\ UNCHANGED << rebindings_head, loaded, scoped, last, build, pass >>

\* Lines 431-434: the callback is called on the images already loaded.
EnumerateImages(t, env) ==
    /\ frames[t].pc = "line431"
    /\ Installed(ImageLoop(Memory, rebindings_head, loaded, 1, env))
    /\ frames' = [frames EXCEPT ![t] = [@ EXCEPT !.pc = "idle"]]
    /\ UNCHANGED << rebindings_head, loaded, registered, scoped, last, build,
                    pass >>

\* dyld loads image 2 while the threads run.
ThreadAddImage(env) == AddImage(2, build, env)

NextThreads ==
    \/ \E t \in Threads, rebindings \in ThreadBatches,
          malloc \in ThreadMallocs :
          ThreadCall(t, rebindings, malloc)
    \/ \E t \in Threads : ReadHead(t)
    \/ \E t \in Threads : WriteHead(t)
    \/ \E t \in Threads : TestNext(t)
    \/ \E t \in Threads, env \in ThreadEnvs : RegisterCallback(t, env)
    \/ \E t \in Threads, env \in ThreadEnvs : EnumerateImages(t, env)
    \/ \E env \in ThreadEnvs : ThreadAddImage(env)

SpecThreads == Init /\ [][NextThreads]_vars

\* ------------------------------------------------------------------------
\* A call of rebind_symbols_for_image followed statement by statement: by
\* the callback when dyld loads an image, or by rebind_symbols_image.  The
\* calls are serialized; rebind_symbols is one step, as above.

\* The locals of the call at its entry.  again says that the call before it
\* was for the same header with the same chain, with no call of
\* rebind_symbols and no load between the two.
StartPass(kind, h, rebindings, env, prev) ==
    [pc |-> "line235", kind |-> kind, header |-> h,
     rebindings |-> rebindings, env |-> env, i |-> 0, j |-> 0, k |-> 0,
     isDataConst |-> FALSE, oldProtection |-> 0, granted |-> FALSE,
     log |-> << >>, again |-> prev = << h, rebindings >>, prev |-> prev]

\* The return of rebind_symbols_for_image.
ReturnPass ==
    [NoPass EXCEPT !.prev = << pass.header, pass.rebindings >>]

\* The section the call is at.
PassSection == Image(pass.header, build).cmds[pass.i].sects[pass.j]

\* rebind_symbols, in one step.
PassRegister(rebindings, env) ==
    /\ pass.pc = "idle"
    /\ Len(rebindings_head) + scoped < MaxCalls
    /\ \E r \in { rebind_symbols(Memory, rebindings_head, registered,
                                  rebindings, loaded, BothMallocs, env) } :
        /\ rebindings_head' = r.head
        /\ registered' = r.registered
        /\ Installed(r.mem)
    /\ pass' = NoPass
    /\ UNCHANGED << loaded, scoped, last, build, frames >>

\* dyld loads the image at h and calls the registered callback, if any
\* (lines 394-397).
PassLoad(h, b, env) ==
    /\ pass.pc = "idle"
    /\ h \notin Range(loaded)
    /\ b = IF h = 3 THEN b ELSE build
    /\ loaded' = Append(loaded, h)
    /\ build' = b
    /\ pass' = IF registered > 0
               THEN StartPass("callback", h, rebindings_head, env, << >>)
               ELSE NoPass
    /\ UNCHANGED << rebindings_head, bindings, prot, out, registered, scoped,
                    last, frames >>

\* rebind_symbols_image, lines 403-405, when both mallocs return memory.
PassImage(h, rebindings, env) ==
    /\ pass.pc = "idle"
    /\ Len(rebindings_head) + scoped < MaxCalls
    /\ scoped' = scoped + 1
    /\ pass' = StartPass("image", h,
                         prepend_rebindings(<< >>, rebindings,
                                            BothMallocs).head, env, pass.prev)
    /\ UNCHANGED << rebindings_head, bindings, prot, out, loaded, registered,
                    last, build, frames >>

\* Lines 235-337: dladdr, the first loop and the early return.
PassEnter ==
    /\ pass.pc = "line235"
    /\ pass' = IF \/ dladdr(pass.header, loaded) = 0
                  \/ Skipped(Image(pass.header, build))
               THEN ReturnPass
               ELSE [pass EXCEPT !.pc = "line361", !.i = 1, !.j = 1]
    /\ UNCHANGED << rebindings_head, bindings, prot, out, loaded, registered,
                    scoped, last, build, frames >>

\* Lines 361-388, one test of the two loops: the end of the commands, a
\* command that is not a segment to look into, the end of its sections, a
\* section that is a pointer table, a section that is not.
PassNextSection ==
    /\ pass.pc = "line361"
    /\ LET cmds == Image(pass.header, build).cmds
       IN  pass' =
             IF pass.i > Len(cmds) THEN ReturnPass
             ELSE IF \/ ~ IsDataSegment(cmds[pass.i])
                     \/ pass.j > Len(cmds[pass.i].sects)
             THEN [pass EXCEPT !.i = pass.i + 1, !.j = 1]
             ELSE IF PassSection.flags % (SECTION_TYPE + 1)
                        \in { S_LAZY_SYMBOL_POINTERS,
                              S_NON_LAZY_SYMBOL_POINTERS }
             THEN [pass EXCEPT !.pc = "line147"]
             ELSE [pass EXCEPT !.j = pass.j + 1]
    /\ UNCHANGED << rebindings_head, bindings, prot, out, loaded, registered,
                    scoped, last, build, frames >>

\* Lines 147-164 of perform_rebinding_with_section.  log is the list of the
\* calls of mprotect of the pass.
PassSectionBegin ==
    /\ pass.pc = "line147"
    /\ LET section == PassSection
           isDataConst == strcmp(section.segname, SEG_DATA_CONST) = 0
           oldProtection ==
               IF isDataConst
               THEN get_protection(Memory,
                                   QueriedAddress(pass.rebindings,
                                                  pass.header, section),
                                   pass.env)
               ELSE VM_PROT_READ
       IN  /\ Installed(IF isDataConst
                        THEN mprotect(Memory, pass.header, section,
                                      PROT_READ + PROT_WRITE)
                        ELSE Memory)
           /\ pass' = [pass EXCEPT
                         !.pc = "line166", !.k = 0,
                         !.isDataConst = isDataConst,
                         !.oldProtection = oldProtection,
                         !.granted = isDataConst,
                         !.log = IF isDataConst
                                 THEN Append(@, [addr |-> section.addr,
                                                 protection |->
                                                     PROT_READ + PROT_WRITE])
                                 ELSE @]
    /\ UNCHANGED << rebindings_head, loaded, registered, scoped, last, build,
                    frames >>

\* Lines 166-200: one turn of the loop over the slots of the section.
PassSlot ==
    /\ pass.pc = "line166"
    /\ pass.k < PassSection.size \div PtrSize
    /\ Installed(symbol_loop(Memory, pass.rebindings, pass.header,
                             PassSection, pass.k, pass.env))
    /\ pass' = [pass EXCEPT !.k = pass.k + 1]
    /\ UNCHANGED << rebindings_head, loaded, registered, scoped, last, build,
                    frames >>

\* PassSectionEnd without the call of mprotect when the section had no
\* matching slot.
PassSectionEndUnlessUnchanged ==
    /\ pass.pc = "line166"
    /\ pass.k >= PassSection.size \div PtrSize
    /\ LET protection == RestoredProtection(pass.oldProtection)
           restores ==
               /\ pass.isDataConst
               /\ \E w \in SectionWords(PassSection) :
                     bindings[pass.header][w]
                         # Image(pass.header, build).words[w]
       IN  /\ Installed(IF restores
                        THEN mprotect(Memory, pass.header, PassSection,
                                      protection)
                        ELSE Memory)
           /\ pass' = [pass EXCEPT
                         !.pc = "line361", !.j = pass.j + 1,
                         !.granted = pass.granted /\ ~ restores,
                         !.log = IF restores
                                 THEN Append(@, [addr |-> PassSection.addr,
                                                 protection |-> protection])
                                 ELSE @]
    /\ UNCHANGED << rebindings_head, loaded, registered, scoped, last, build,
                    frames >>

\* Lines 202-214, after the last slot, and the return to the loop of line
\* 370.
PassSectionEnd ==
    /\ pass.pc = "line166"
    /\ pass.k >= PassSection.size \div PtrSize
    /\ LET protection == RestoredProtection(pass.oldProtection)
       IN  /\ Installed(IF pass.isDataConst
                        THEN mprotect(Memory, pass.header, PassSection,
                                      protection)
                        ELSE Memory)
           /\ pass' = [pass EXCEPT
                         !.pc = "line361", !.j = pass.j + 1,
                         !.granted = FALSE,
                         !.log = IF pass.isDataConst
                                 THEN Append(@, [addr |-> PassSection.addr,
                                                 protection |-> protection])
                                 ELSE @]
    /\ UNCHANGED << rebindings_head, loaded, registered, scoped, last, build,
                    frames >>

NextPass ==
    \/ \E rebindings \in PassBatches, env \in Envs :
          PassRegister(rebindings, env)
    \/ \E h \in Headers, env \in Envs : PassLoad(h, build, env)
    \/ \E h \in Headers, rebindings \in PassBatches, env \in Envs :
          PassImage(h, rebindings, env)
    \/ PassEnter
    \/ PassNextSection
    \/ PassSectionBegin
    \/ PassSlot
    \/ PassSectionEnd

SpecPass == Init /\ [][NextPass]_vars

\* ------------------------------------------------------------------------
\* Definitions the properties are stated with.  They describe the images
\* and the chain directly and do not go through the operators above.

RECURSIVE Concat(_)
Concat(ss) == IF ss = << >> THEN << >> ELSE Head(ss) \o Concat(Tail(ss))

\* The image has a link-edit segment, a symbol table command and a dynamic
\* symbol table command with at least one indirect symbol.
Complete(img) ==
    /\ \E c \in Range(img.cmds) :
          c.cmd = LC_SEGMENT_ARCH_DEPENDENT /\ c.segname = SEG_LINKEDIT
    /\ \E c \in Range(img.cmds) : c.cmd = LC_SYMTAB
    /\ \E c \in Range(img.cmds) : c.cmd = LC_DYSYMTAB /\ c.nindirectsyms > 0

\* The lazy and non-lazy symbol-pointer sections of the segments __DATA and
\* __DATA_CONST, in the order of the load commands.
PointerTables(img) ==
    Concat([c \in DOMAIN img.cmds |->
              IF /\ img.cmds[c].cmd = LC_SEGMENT_ARCH_DEPENDENT
                 /\ img.cmds[c].segname \in {SEG_DATA, SEG_DATA_CONST}
              THEN SelectSeq(img.cmds[c].sects,
                             LAMBDA t : t.flags % 256 \in
                                 {S_LAZY_SYMBOL_POINTERS,
                                  S_NON_LAZY_SYMBOL_POINTERS})
              ELSE << >>])

ReservedEntries ==
    {INDIRECT_SYMBOL_ABS, INDIRECT_SYMBOL_LOCAL,
     INDIRECT_SYMBOL_LOCAL + INDIRECT_SYMBOL_ABS}

\* The slots of a table, first to last: the word of each and its entry in
\* the indirect symbol table.
TableSlots(img, t) ==
    [i \in 1 .. t.size \div PtrSize |->
        [w |-> t.addr \div PtrSize + i,
         entry |-> img.indirect_symtab[t.reserved1 + i]]]

\* The slots of a complete image that are bound to a symbol, in the order a
\* pass over the image reaches them: the word of each and its symbol name.
BoundSlots(img) ==
    LET tables == PointerTables(img)
        Bound(t) == SelectSeq(TableSlots(img, t),
                              LAMBDA x : x.entry \notin ReservedEntries)
        Named(xs) == [k \in DOMAIN xs |->
                        [w |-> xs[k].w,
                         symbol |-> CString(img.strtab,
                                            img.symtab[xs[k].entry + 1])]]
    IN  IF Complete(img)
        THEN Concat([k \in DOMAIN tables |-> Named(Bound(tables[k]))])
        ELSE << >>

\* The slots of a complete image whose entry is one of the reserved values.
ReservedSlots(img) ==
    LET tables == PointerTables(img)
    IN  IF Complete(img)
        THEN Concat([k \in DOMAIN tables |->
                       SelectSeq(TableSlots(img, tables[k]),
                                 LAMBDA x : x.entry \in ReservedEntries)])
        ELSE << >>

\* The bound slots of the images hs, in the order hs lists the images, when
\* image 3 is build b.
SlotsOf(hs, b) ==
    Concat([k \in DOMAIN hs |->
              LET xs == BoundSlots(Image(hs[k], b))
              IN  [j \in DOMAIN xs |->
                     [h |-> hs[k], w |-> xs[j].w, symbol |-> xs[j].symbol]]])

\* The rebindings of a chain that a symbol name matches, in chain order: the
\* name is the symbol name without its first character.
Matching(chain, symbol) ==
    SelectSeq(Concat(chain),
              LAMBDA r : Len(symbol) >= 2 /\ r.name = Tail(symbol))

Matches(chain, symbol) == Matching(chain, symbol) # << >>

FirstMatch(chain, symbol) == Head(Matching(chain, symbol))

\* What a step of the system is, from the state before and after it.
Registers == Len(rebindings_head') = Len(rebindings_head) + 1

CallsScoped == scoped' = scoped + 1

Loads == loaded' # loaded

\* The images a step runs a patch pass over, in order, and the chain the
\* passes are given.
StepImages ==
    IF Registers THEN loaded
    ELSE IF CallsScoped
    THEN (IF last'.header \in Range(loaded) THEN << last'.header >>
          ELSE << >>)
    ELSE IF Loads /\ registered > 0 THEN << loaded'[Len(loaded')] >>
    ELSE << >>

StepChain ==
    IF Registers THEN rebindings_head'
    ELSE IF CallsScoped THEN last'.private
    ELSE rebindings_head

\* The bound slots a step passes over, in order.
StepSlots == SlotsOf(StepImages, build')

\* ------------------------------------------------------------------------
\* Properties.

\* Slot k of the slots xs a step passes over is matched to a rebinding that
\* has an output slot, and holds a value other than the replacement.
Captures(xs, chain, k) ==
    /\ Matches(chain, xs[k].symbol)
    /\ FirstMatch(chain, xs[k].symbol).replaced # NULL
    /\ bindings[xs[k].h][xs[k].w] # FirstMatch(chain, xs[k].symbol).replacement

\* No slot after slot k is captured into the same output slot.
LastCapture(xs, chain, k) ==
    \A k2 \in DOMAIN xs :
        (k2 > k /\ Captures(xs, chain, k2))
            => FirstMatch(chain, xs[k2].symbol).replaced
                   # FirstMatch(chain, xs[k].symbol).replaced

\* C1 as stated: when the first rebinding that matches a slot is (name,
\* R, O) and the slot holds F # R, then after the patch pass the slot holds
\* R and O holds F.
C1_AsStated ==
    [][\A xs \in {StepSlots}, chain \in {StepChain} : \A k \in DOMAIN xs :
          Captures(xs, chain, k)
              => /\ bindings'[xs[k].h][xs[k].w]
                       = FirstMatch(chain, xs[k].symbol).replacement
                 /\ out'[FirstMatch(chain, xs[k].symbol).replaced]
                       = bindings[xs[k].h][xs[k].w]]_vars

\* C1, amended: when the first rebinding that matches a slot is (name, R, O)
\* and the slot holds F # R, then after the patch pass the slot holds R; and
\* O holds F unless a slot the pass reaches later is captured into O too (O
\* then holds the value of the last such slot).
C1_SlotRebound ==
    [][\A xs \in {StepSlots}, chain \in {StepChain} : \A k \in DOMAIN xs :
          Captures(xs, chain, k)
              => /\ bindings'[xs[k].h][xs[k].w]
                       = FirstMatch(chain, xs[k].symbol).replacement
                 /\ LastCapture(xs, chain, k)
                       => out'[FirstMatch(chain, xs[k].symbol).replaced]
                              = bindings[xs[k].h][xs[k].w]]_vars

\* Scenario A has happened: rebind_symbols_image has applied ("open", 21,
\* output slot 1) to image 2, whose one patchable table has one slot bound
\* to "_open", which held 11.
C1_Witness ==
    /\ last.op = "rebind_symbols_image"
    /\ last.header = 2
    /\ last.private = << Batch1 >>
    /\ Image2.words[1] = 11
    /\ bindings[2][1] = 21
    /\ out[1] = 11

\* The newest entry of the chain and the older entries.
Newest == Head(rebindings_head)

Older == Tail(rebindings_head)

\* C2: when rebind_symbols has returned success for a name that an earlier
\* successful call registered too, every bound slot of every loaded image
\* whose symbol matches that name holds the replacement of the newest
\* call's first rebinding of the name.
C2_NewestWins ==
    (/\ last.op = "rebind_symbols"
     /\ last.retval = 0
     /\ Len(rebindings_head) >= 2)
        => \A xs \in {SlotsOf(loaded, build)} : \A k \in DOMAIN xs :
              (/\ Matches(<< Newest >>, xs[k].symbol)
               /\ Matches(Older, xs[k].symbol))
                  => bindings[xs[k].h][xs[k].w]
                         = FirstMatch(<< Newest >>, xs[k].symbol).replacement

\* "open" was registered with replacement 21 and then with replacement 22,
\* and the slots bound to "_open" in images 1 and 2 hold 22.
C2_Witness ==
    /\ last.op = "rebind_symbols"
    /\ last.retval = 0
    /\ rebindings_head = << Batch2, Batch1 >>
    /\ loaded = << 1, 2 >>
    /\ bindings[1][1] = 22
    /\ bindings[1][4] = 22
    /\ bindings[2][1] = 22

\* The step is the second successful call of rebind_symbols, it follows the
\* first with no other call in between, and slot k of the slots xs it passes
\* over is bound to a name that both calls register, with different
\* replacements and with an output slot in the second.
SecondRegistration(xs, k) ==
    /\ Registers
    /\ Len(rebindings_head) = 1
    /\ last.op = "rebind_symbols"
    /\ last.retval = 0
    /\ Matches(rebindings_head, xs[k].symbol)
    /\ Matches(<< Head(rebindings_head') >>, xs[k].symbol)
    /\ FirstMatch(rebindings_head', xs[k].symbol).replacement
           # FirstMatch(rebindings_head, xs[k].symbol).replacement
    /\ FirstMatch(rebindings_head', xs[k].symbol).replaced # NULL

ConstWords(img) ==
    IF Complete(img)
    THEN UNION { { t.addr \div PtrSize + i : i \in 1 .. t.size \div PtrSize } :
                 t \in { u \in Range(PointerTables(img)) :
                           u.segname = SEG_DATA_CONST } }
    ELSE {}

\* C4 as stated: the protection of every __DATA_CONST section a patch pass
\* processes is after the pass what it was before the pass.
C4_ProtectionPreserved ==
    [][\A h \in Range(StepImages) : \A w \in ConstWords(Image(h, build')) :
          prot'[h][w] = prot[h][w]]_vars

\* C5: a call of rebind_symbols or rebind_symbols_image in which a malloc
\* of prepend_rebindings returns NULL returns a negative status and leaves
\* the global chain, the number of registered callbacks, every pointer slot
\* and every output slot as they were.
C5_FailureChangesNothing ==
    [][(/\ loaded' = loaded
        /\ ~ (last'.malloc.entry /\ last'.malloc.rebindings))
          => /\ last'.retval < 0
             /\ rebindings_head' = rebindings_head
             /\ registered' = registered
             /\ bindings' = bindings
             /\ out' = out]_vars

\* rebind_symbols has failed after ("open", 21, output slot 1) was
\* registered: the chain, the callback and the hooks of image 1 are in place.
C5_Witness ==
    /\ last.op = "rebind_symbols"
    /\ ~ last.malloc.rebindings
    /\ last.retval < 0
    /\ rebindings_head = << Batch1 >>
    /\ registered = 1
    /\ bindings[1][1] = 21
    /\ bindings[1][4] = 21
    /\ out[1] = 11

\* C6: the callback is registered once, by the first call of rebind_symbols
\* that succeeds: it is registered exactly when the chain is not empty, a
\* successful call runs the loop over the loaded images exactly when it was
\* not the first, and a failed call does neither.
C6_RegisteredOnce ==
    /\ registered = IF rebindings_head = << >> THEN 0 ELSE 1
    /\ last.op = "rebind_symbols" /\ last.retval = 0
          => last.enumerated = (Len(rebindings_head) >= 2)
    /\ last.op = "rebind_symbols" /\ last.retval < 0 => ~ last.enumerated

\* The second successful call of rebind_symbols has returned: it ran the
\* loop over the loaded images and one callback is registered.
C6_Witness ==
    /\ last.op = "rebind_symbols"
    /\ last.retval = 0
    /\ Len(rebindings_head) = 2
    /\ last.enumerated
    /\ registered = 1

\* C7: when only rebind_symbols has been called and images have been
\* loaded, every bound slot of every loaded image whose symbol matches a
\* rebinding of the chain holds the replacement of the first rebinding of
\* the chain it matches.
C7_NoImageMissed ==
    (scoped = 0 /\ rebindings_head # << >>)
        => \A xs \in {SlotsOf(loaded, build)} : \A k \in DOMAIN xs :
              Matches(rebindings_head, xs[k].symbol)
                  => bindings[xs[k].h][xs[k].w]
                         = FirstMatch(rebindings_head, xs[k].symbol).replacement

\* Image 1 was loaded before the rebindings of "open" (22), "close" and
\* "write" (24) were registered, image 2 after that and before "open" (21)
\* was registered: the slots of both images hold the replacements of the
\* first rebindings of the chain they match.
C7_Witness ==
    /\ scoped = 0
    /\ loaded = << 1, 2 >>
    /\ rebindings_head = << Batch1, Batch2 >>
    /\ bindings[1] = << 21, 24, 90, 21, 91, 92, 93 >>
    /\ bindings[2][1] = 21

\* C8: a call of rebind_symbols_image leaves the global chain, the number
\* of registered callbacks and the loaded images as they were, and changes
\* no pointer word and no protection outside the image it is given; and in
\* every other step a slot that changes takes the replacement of the first
\* rebinding of the global chain that its symbol matches, and an output slot
\* that changes is the output slot of a rebinding of the global chain.
C8_ScopedToOneImage ==
    [][/\ CallsScoped
          => /\ rebindings_head' = rebindings_head
             /\ registered' = registered
             /\ loaded' = loaded
             /\ \A h \in Headers \ {last'.header} :
                   bindings'[h] = bindings[h] /\ prot'[h] = prot[h]
       /\ ~ CallsScoped
          => /\ \A xs \in {SlotsOf(<< 1, 2, 3 >>, build')} :
                   \A k \in DOMAIN xs :
                      bindings'[xs[k].h][xs[k].w] # bindings[xs[k].h][xs[k].w]
                         => /\ Matches(rebindings_head', xs[k].symbol)
                            /\ bindings'[xs[k].h][xs[k].w]
                                 = FirstMatch(rebindings_head',
                                              xs[k].symbol).replacement
             /\ \A o \in OutSlots :
                   out'[o] # out[o]
                      => \E r \in Range(Concat(rebindings_head')) :
                            r.replaced = o]_vars

\* rebind_symbols_image applied ("open", 22), ("close", 23), ("write", 24)
\* to image 1, and rebind_symbols then registered ("open", 21): the slot of
\* "_write" in image 1 holds 24, the slots of "_open" hold 21, and the chain
\* holds the one array.
C8_Witness ==
    /\ scoped = 1
    /\ last.op = "rebind_symbols"
    /\ last.retval = 0
    /\ rebindings_head = << Batch1 >>
    /\ registered = 1
    /\ bindings[1] = << 21, 24, 90, 21, 91, 92, 93 >>
    /\ out[3] = NULL

\* C9: no step changes a pointer word or a protection of an image that is
\* not complete; and a call of rebind_symbols_image on such an image, or
\* the load of such an image, changes no output slot, no pointer word, no
\* protection and not the chain, and the call returns 0 when malloc did
\* not fail.
C9_IncompleteSkipped ==
    [][/\ \A h \in Headers :
             ~ Complete(Image(h, build'))
                => bindings'[h] = bindings[h] /\ prot'[h] = prot[h]
       /\ (/\ CallsScoped \/ Loads
           /\ \A h \in Range(StepImages) : ~ Complete(Image(h, build')))
          => /\ out' = out
             /\ bindings' = bindings
             /\ prot' = prot
             /\ rebindings_head' = rebindings_head
             /\ (CallsScoped /\ last'.private # << >>) => last'.retval = 0]_vars

\* rebind_symbols_image has been called with ("open", 21, output slot 1) on
\* image 3, loaded in the build whose indirect-symbol count is 0: its slot,
\* bound to "_open", holds 11 and output slot 1 is empty.
C9_Witness ==
    /\ last.op = "rebind_symbols_image"
    /\ last.header = 3
    /\ 3 \in Range(loaded)
    /\ build = 4
    /\ Image3[4].cmds[4].nindirectsyms = 0
    /\ last.private = << Batch1 >>
    /\ last.retval = 0
    /\ bindings[3] = << 11 >>
    /\ out[1] = NULL

\* C10: a slot whose entry in the indirect symbol table is
\* INDIRECT_SYMBOL_ABS, INDIRECT_SYMBOL_LOCAL or both holds the value it was
\* loaded with, and no output slot holds that value.
C10_SentinelsUntouched ==
    \A h \in Headers :
        \A x \in Range(ReservedSlots(Image(h, build))) :
            /\ bindings[h][x.w] = Image(h, build).words[x.w]
            /\ \A o \in OutSlots : out[o] # Image(h, build).words[x.w]

\* "open" is registered and the slot of "_open" in the non-lazy table of
\* image 1 holds the replacement, while the three slots after it, whose
\* entries are the reserved values, hold 91, 92 and 93.
C10_Witness ==
    /\ rebindings_head # << >>
    /\ Matches(rebindings_head, << 95 >> \o str_open)
    /\ Len(ReservedSlots(Image1)) = 3
    /\ bindings[1][4] \in {21, 22}
    /\ << bindings[1][5], bindings[1][6], bindings[1][7] >> = << 91, 92, 93 >>

\* A thread runs line 426 or lines 431-434, and the images a step of the
\* threads passes over.
ThreadApplies ==
    \E t \in Threads :
        frames[t].pc \in { "line426", "line431" } /\ frames'[t].pc = "idle"

ThreadPassImages ==
    IF ThreadApplies THEN loaded
    ELSE IF Loads /\ registered > 0 THEN << loaded'[Len(loaded')] >>
    ELSE << >>

\* C11: a pointer word changes only when it is a bound slot of a lazy or
\* non-lazy table of __DATA or __DATA_CONST of an image the step passes
\* over and its symbol matches a rebinding of the chain; when no such slot
\* exists the step changes no pointer word and no output slot; a pass leaves
\* the chain as it is, and the call of rebind_symbols returns 0.
C11_WritesOnlyOnMatch ==
    [][/\ \A h \in Headers : \A w \in DOMAIN bindings[h] :
             bindings'[h][w] # bindings[h][w]
                => /\ h \in Range(ThreadPassImages)
                   /\ \E x \in Range(BoundSlots(Image(h, build'))) :
                         x.w = w /\ Matches(rebindings_head, x.symbol)
       /\ (\A x \in Range(SlotsOf(ThreadPassImages, build')) :
              ~ Matches(rebindings_head, x.symbol))
             => bindings' = bindings /\ out' = out
       /\ ThreadApplies
             => /\ rebindings_head' = rebindings_head
                /\ \A t \in Threads :
                      frames'[t].pc # frames[t].pc => frames'[t].retval = 0]_vars

\* Scenario B has happened: a thread has registered "close" alone, the
\* callback is registered and was called on image 1, and no pointer word
\* and no output slot has changed.
C11_Witness ==
    /\ frames[1].pc = "idle" /\ frames[1].calls = 1
    /\ frames[1].rebindings = Batch3
    /\ frames[1].retval = 0
    /\ frames[2].calls = 0
    /\ rebindings_head = << Batch3 >>
    /\ registered = 1
    /\ bindings[1] = Image1.words
    /\ out = [o \in OutSlots |-> NULL]

\* C13: a step leaves the chain as it is, or it is a call of rebind_symbols
\* that returns 0 and the chain after it is one of the arrays callers pass,
\* in the order of the array, in front of the chain before it; and every
\* call of rebind_symbols that returns 0 puts an entry in front.
C13_AppendOnly ==
    [][/\ \/ rebindings_head' = rebindings_head
          \/ /\ rebindings_head' # << >>
             /\ Tail(rebindings_head') = rebindings_head
             /\ Head(rebindings_head') \in Batches
             /\ last'.op = "rebind_symbols"
             /\ last'.retval = 0
             /\ loaded' = loaded /\ scoped' = scoped
       /\ (/\ loaded' = loaded /\ scoped' = scoped
           /\ last'.op = "rebind_symbols" /\ last'.retval = 0)
             => Registers]_vars

\* Two calls of rebind_symbols succeeded, image 2 was loaded, and a third
\* call failed: the chain holds the two arrays, the later one first.
C13_Witness ==
    /\ rebindings_head = << Batch1, Batch2 >>
    /\ loaded = << 1, 2 >>
    /\ last.op = "rebind_symbols"
    /\ last.retval < 0

\* C17: a call of rebind_symbols_image with a header that dladdr does not
\* find changes no pointer word, no output slot and no protection, and
\* returns the status of prepend_rebindings: 0 when both mallocs returned
\* memory, -1 otherwise.
C17_UnknownHeader ==
    [][(CallsScoped /\ last'.header \notin Range(loaded))
          => /\ bindings' = bindings
             /\ out' = out
             /\ prot' = prot
             /\ rebindings_head' = rebindings_head
             /\ last'.retval = IF last'.malloc.entry /\ last'.malloc.rebindings
                               THEN 0 ELSE -1]_vars

\* rebind_symbols_image was called with ("open", 21, output slot 1) on
\* image 2 before dyld loaded it: it returned 0, the slot of "_open" in
\* image 2 holds 11 and output slot 1 is empty.
C17_Witness ==
    /\ last.op = "rebind_symbols_image"
    /\ last.header = 2
    /\ 2 \notin Range(loaded)
    /\ last.private = << Batch1 >>
    /\ last.malloc = BothMallocs
    /\ last.retval = 0
    /\ bindings[2] = Image2.words
    /\ bindings[2][1] = 11
    /\ out[1] = NULL

\* C19: the chain holds as many entries as the threads have linked when no
\* thread wrote the head after another thread had changed it since it read
\* it, and fewer entries when some thread did.
C19_LostAppend ==
    LET linked == frames[1].prepends + frames[2].prepends
    IN  IF \E t \in Threads : frames[t].stale
        THEN Len(rebindings_head) < linked
        ELSE Len(rebindings_head) = linked

\* Both threads have called rebind_symbols once, thread 1 with "open" and
\* thread 2 with "close", both calls have returned 0, and the chain holds
\* the array of thread 1 alone.
C19_Witness ==
    /\ \A t \in Threads :
          /\ frames[t].pc = "idle"
          /\ frames[t].calls = 1
          /\ frames[t].prepends = 1
          /\ frames[t].retval = 0
    /\ frames[1].rebindings = Batch1
    /\ frames[2].rebindings = Batch3
    /\ rebindings_head = << Batch1 >>

\* No callback is registered, the chain has two entries or more, no thread
\* is about to register, and no thread is about to link an entry in front
\* of an empty chain.
NeverSubscribes ==
    /\ registered = 0
    /\ Len(rebindings_head) >= 2
    /\ \A t \in Threads :
          /\ frames[t].pc # "line426"
          /\ frames[t].pc = "line85" => frames[t].next # << >>

\* C20: two callbacks or more are registered only when a thread wrote the
\* head after another thread had changed it, and never more callbacks than
\* entries were linked; once the chain has two entries with
\* no callback registered, and no thread about to register, no step
\* registers one; and an image loaded while no callback is registered is
\* left as it was loaded.
C20_SubscriptionRace ==
    [][/\ registered' >= 2 => \E t \in Threads : frames'[t].stale
       /\ registered' <= frames'[1].prepends + frames'[2].prepends
       /\ NeverSubscribes => NeverSubscribes'
       /\ (Loads /\ registered = 0)
             => bindings' = bindings /\ out' = out /\ prot' = prot]_vars

\* The threads made the first two calls together and neither registered
\* the callback; a third call did not register it either, and image 2,
\* loaded after that, still holds 11 in its slot of "_open" while "open" is
\* in the chain.
C20_Witness ==
    /\ \A t \in Threads : frames[t].pc = "idle" /\ frames[t].retval = 0
    /\ frames[1].calls + frames[2].calls = 3
    /\ registered = 0
    /\ Len(rebindings_head) = 3
    /\ Matches(rebindings_head, << 95 >> \o str_open)
    /\ loaded = << 1, 2 >>
    /\ bindings[2][1] = 11

\* A step is one turn of the loop of line 166, the word of the slot it is
\* for, and the symbol names bound to that word (one name, or none when the
\* slot's entry is a reserved value).
SlotStepped ==
    pass.pc = "line166" /\ pass'.pc = "line166" /\ pass'.k = pass.k + 1

SlotWord == PassSection.addr \div PtrSize + pass.k + 1

SlotSymbols ==
    { x.symbol : x \in { y \in Range(BoundSlots(Image(pass.header, build))) :
                           y.w = SlotWord } }

\* The section of the pass belongs to __DATA_CONST.
InDataConst == PassSection.segname = SEG_DATA_CONST

\* C12: one turn of the slot loop applies one rebinding at most: when the
\* chain, read from its newest entry to its oldest and each entry in array
\* order, has a rebinding for the slot's symbol, the slot takes the
\* replacement of the first of them, the only output slot that may change
\* is that rebinding's, and it takes the value the slot held; no other word
\* changes; when the chain has none, nothing changes.
C12_FirstMatchOnly ==
    [][SlotStepped =>
          /\ \A symbol \in SlotSymbols :
                Matches(pass.rebindings, symbol) =>
                    LET r == FirstMatch(pass.rebindings, symbol)
                    IN  /\ bindings'[pass.header][SlotWord] = r.replacement
                        /\ \A o \in OutSlots :
                              out'[o] # out[o]
                                 => /\ o = r.replaced
                                    /\ out'[o] = bindings[pass.header][SlotWord]
          /\ (\A symbol \in SlotSymbols : ~ Matches(pass.rebindings, symbol))
                => bindings' = bindings /\ out' = out
          /\ \A h \in Headers : \A w \in DOMAIN bindings[h] :
                bindings'[h][w] # bindings[h][w]
                   => h = pass.header /\ w = SlotWord]_vars

\* rebind_symbols was called with the array of Batch2 and then with
\* ("open", 21, output 1), image 2 was loaded and the callback has passed
\* its slot of "_open": the slot holds 21, output slot 1 holds 11, and output
\* slot 2, of the rebindings of "open" in the older entry, holds what the
\* calls before left in it.
C12_Witness ==
    /\ pass.kind = "callback" /\ pass.header = 2
    /\ pass.pc = "line166" /\ pass.k = 1
    /\ pass.rebindings = << Batch1, Batch2 >>
    /\ bindings[2][1] = 21
    /\ out[1] = 11
    /\ out[2] = 11
    /\ out[3] = NULL

\* C14: no step of a call of rebind_symbols_for_image changes a pointer
\* word or an output slot when the call before it was for the same image
\* with the same chain and nothing was registered or loaded between them.
C14_SecondPassChangesNothing ==
    [][(pass.pc # "idle" /\ pass.again)
          => bindings' = bindings /\ out' = out]_vars

\* rebind_symbols_image was called twice on image 1 with the array of
\* Batch2, and the second call has passed the last slot of the last table:
\* the words and the output slots are as the first call left them.
C14_Witness ==
    /\ pass.again
    /\ pass.kind = "image" /\ pass.header = 1
    /\ pass.rebindings = << Batch2 >>
    /\ pass.pc = "line166" /\ pass.i = 3 /\ pass.k = 4
    /\ bindings[1] = << 22, 24, 90, 22, 91, 92, 93 >>
    /\ out = [o \in OutSlots |-> IF o = 2 THEN 11 ELSE NULL]

\* C15: in a pass, the protection of a word changes only for the words of
\* the __DATA_CONST section the pass is at, and mprotect is called only for
\* such a section; a word of such a section is written only after the call
\* that grants write access; the step that leaves such a section is the
\* call that restores, after the last slot whether or not a slot matched;
\* and outside the slot loop no grant is left without its restore.
C15_ProtectionScoped ==
    [][pass.pc # "idle" =>
          /\ \A h \in Headers : \A w \in DOMAIN prot[h] :
                prot'[h][w] # prot[h][w]
                   => /\ h = pass.header
                      /\ InDataConst
                      /\ w \in SectionWords(PassSection)
          /\ pass'.pc # "idle" /\ pass'.log # pass.log => InDataConst
          /\ \A w \in DOMAIN bindings[pass.header] :
                (bindings'[pass.header][w] # bindings[pass.header][w]
                    /\ InDataConst)
                   => /\ pass.granted
                      /\ pass.log[Len(pass.log)]
                            = [addr |-> PassSection.addr,
                               protection |-> PROT_READ + PROT_WRITE]
                      /\ HasBit(prot[pass.header][w], VM_PROT_WRITE)
          /\ (pass.pc = "line147" /\ InDataConst)
                => /\ pass'.granted
                   /\ pass'.log
                         = Append(pass.log,
                                  [addr |-> PassSection.addr,
                                   protection |-> PROT_READ + PROT_WRITE])
                   /\ bindings' = bindings
          /\ (pass.pc = "line166" /\ pass'.pc # "line166" /\ InDataConst)
                => /\ pass.k = PassSection.size \div PtrSize
                   /\ Len(pass'.log) = Len(pass.log) + 1
                   /\ pass'.log[Len(pass'.log)].addr = PassSection.addr
                   /\ bindings' = bindings
          /\ pass'.pc # "line166" => ~ pass'.granted
          /\ pass'.pc = "line361" => Len(pass'.log) % 2 = 0]_vars

\* rebind_symbols_image was called on image 1 with names no symbol has, and
\* the pass has left the table of __DATA_CONST: no word has changed,
\* mprotect was called twice, to grant and to restore, and was not called
\* for the table of __DATA before it.
C15_Witness ==
    /\ pass.kind = "image" /\ pass.header = 1
    /\ pass.rebindings = << Batch4 >>
    /\ pass.pc = "line361" /\ pass.i = 3 /\ pass.j = 2
    /\ bindings[1] = Image1.words
    /\ Len(pass.log) = 2
    /\ pass.log[1] = [addr |-> 24, protection |-> PROT_READ + PROT_WRITE]
    /\ pass.log[2].addr = 24
    /\ ~ pass.granted

\* C16: in a pass during which vm_region fails, the call goes on from line
\* 164 to the slot loop, a slot whose symbol the chain has a rebinding for
\* takes the replacement of the first of them, and the call of mprotect
\* that ends a __DATA_CONST section installs PROT_READ alone.
C16_QueryFailure ==
    [][(pass.pc # "idle" /\ pass.env.info_ret # KERN_SUCCESS) =>
          /\ pass.pc = "line147"
                => pass'.pc = "line166" /\ pass'.oldProtection = VM_PROT_READ
          /\ SlotStepped
                => \A symbol \in SlotSymbols :
                      Matches(pass.rebindings, symbol)
                         => bindings'[pass.header][SlotWord]
                               = FirstMatch(pass.rebindings,
                                            symbol).replacement
          /\ (pass.pc = "line166" /\ pass'.pc # "line166" /\ InDataConst)
                => /\ pass'.log[Len(pass'.log)].protection = PROT_READ
                   /\ \A w \in SectionWords(PassSection) :
                         /\ HasBit(prot'[pass.header][w], VM_PROT_READ)
                         /\ ~ HasBit(prot'[pass.header][w], VM_PROT_WRITE)
                         /\ ~ HasBit(prot'[pass.header][w],
                                     VM_PROT_EXECUTE)]_vars

\* rebind_symbols_image was called on image 1 with ("open", 21, output 1)
\* while vm_region fails, and the pass has left the table of __DATA_CONST:
\* its slot of "_open" holds 21, output slot 1 holds what the slot held, and
\* the table is read-only.
C16_Witness ==
    /\ pass.kind = "image" /\ pass.header = 1
    /\ pass.env.info_ret = KERN_FAILURE
    /\ pass.rebindings = << Batch1 >>
    /\ pass.pc = "line361" /\ pass.i = 3 /\ pass.j = 2
    /\ bindings[1][4] = 21
    /\ out[1] = 11
    /\ pass.log[2].protection = PROT_READ
    /\ \A w \in 4 .. 7 : prot[1][w] = VM_PROT_READ

\* C18: the test of lines 179-186 holds for a symbol name of the string
\* table and a name of the chain only when the symbol name has two
\* characters or more and is the name of the chain after its first
\* character; and a turn of the slot loop changes a word or an output slot
\* only for such a symbol name, so never for the symbol names "" and "_".
C18_StripsOneCharacter ==
    [][SlotStepped =>
          LET img == Image(pass.header, build)
              names == { r.name : r \in Range(Concat(pass.rebindings)) }
          IN  /\ \A off \in 0 .. Len(img.strtab) - 1 : \A name \in names :
                    NameMatches(img.strtab, off, name)
                       <=> /\ Len(CString(img.strtab, off)) >= 2
                           /\ Tail(CString(img.strtab, off)) = name
              /\ (bindings' # bindings \/ out' # out)
                    => \E symbol \in SlotSymbols :
                          /\ Len(symbol) >= 2
                          /\ Tail(symbol) \in names
              /\ SlotSymbols \subseteq { << >>, << 95 >> }
                    => bindings' = bindings /\ out' = out]_vars

\* rebind_symbols_image was called on image 2 with the empty name, "_open",
\* "ope" and "opens", and the pass has taken the slots of "_open", "_" and
\* "": no word and no output slot has changed.
C18_Witness ==
    /\ pass.kind = "image" /\ pass.header = 2
    /\ pass.rebindings = << Batch4 >>
    /\ pass.pc = "line166" /\ pass.i = 1 /\ pass.k = 3
    /\ bindings[2] = Image2.words
    /\ out = [o \in OutSlots |-> NULL]

\* C21: a turn of the slot loop whose first matching rebinding has no output
\* slot changes no output slot; one whose slot holds the replacement of its
\* first matching rebinding changes no output slot; and the value an output
\* slot takes is not the replacement of the rebinding it belongs to.  The
\* same holds for a call of rebind_symbols taken as one step: an output slot
\* that changes holds the value that a slot of a loaded image held, which
\* was not the replacement of the slot's first matching rebinding, whose
\* output slot it is.
C21_NeverOwnReplacement ==
    [][/\ SlotStepped =>
             \A symbol \in SlotSymbols :
                 Matches(pass.rebindings, symbol) =>
                     LET r == FirstMatch(pass.rebindings, symbol)
                     IN  /\ r.replaced = NULL => out' = out
                         /\ bindings[pass.header][SlotWord] = r.replacement
                               => out' = out
                         /\ \A o \in OutSlots :
                               out'[o] # out[o]
                                  => o = r.replaced /\ out'[o] # r.replacement
       /\ (pass.pc = "idle" /\ Registers) =>
             \A o \in OutSlots :
                 out'[o] # out[o] =>
                     \E x \in Range(SlotsOf(loaded, build)) :
                         /\ Matches(rebindings_head', x.symbol)
                         /\ FirstMatch(rebindings_head', x.symbol).replaced = o
                         /\ out'[o] = bindings[x.h][x.w]
                         /\ out'[o] # FirstMatch(rebindings_head',
                                                 x.symbol).replacement]_vars

\* rebind_symbols was called with the array of Batch2, and rebind_symbols_image
\* with the same array on image 1 has passed the slots of "_open" and
\* "_write" of the first table, which hold the replacements 22 and 24:
\* output slot 2 still holds 11, and the rebinding of "write", which has no
\* output slot, has left the output slots as they were.
C21_Witness ==
    /\ rebindings_head = << Batch2 >>
    /\ pass.kind = "image" /\ pass.header = 1
    /\ pass.rebindings = << Batch2 >>
    /\ pass.pc = "line166" /\ pass.i = 1 /\ pass.k = 2
    /\ bindings[1][1] = 22
    /\ bindings[1][2] = 24
    /\ out = [o \in OutSlots |-> IF o = 2 THEN 11 ELSE NULL]

====
